---- MODULE Spec2Model ----
(***************************************************************************)
(* Model of the typographic layout engine of og-image-generator (main.go): *)
(* greedy word wrapping (wrapText), orphan prevention (preventOrphans),    *)
(* the upward cascade (balanceLinesUpward) and the caption sizing and      *)
(* baseline placement of drawURL.                                          *)
(*                                                                         *)
(* Strings are sequences of one-character strings.  Vertical positions are *)
(* kept in half pixels so that TextTopMargin/2.0 = 67.5 and                *)
(* fontHeight*LineSpacing = fontHeight*1.5 stay integers.                  *)
(***************************************************************************)
EXTENDS Integers, Sequences, FiniteSets, TLC

VARIABLES
    \* wrapText(dc, text, maxWidth)
    title,           \* the text handed to wrapText
    wrapWidth,       \* the maxWidth handed to wrapText, in advance units
    greedy,          \* the lines built by the loop, before preventOrphans
    wrapped,         \* the lines wrapText returned
    wrapDone,        \* wrapText has returned
    \* preventOrphans(lines) called on a caller's slice
    input,           \* the slice's contents before the first call
    slice,           \* the slice's backing array (also the returned slice)
    calls,           \* how many times preventOrphans has run on it
    \* one preventOrphans call on the slice, statement by statement
    cascPc,          \* "start", "loop" (in balanceLinesUpward) or "returned"
    cascIdx,         \* idx of the for loop of balanceLinesUpward
    cascLog,         \* the loop iterations so far: <<idx, "skip" | "move" | "stop">>
    \* drawURL(dc, url, titleFontPath, urlFontPath, width, height)
    urlEms,          \* advance width of the url text, in ems
    width,           \* canvas width
    height,          \* canvas height
    titleFontHeight, \* measureFontHeight of the title face
    urlFontOk,       \* LoadFontFace(urlFontPath, _) succeeds
    titleFontOk,     \* LoadFontFace(titleFontPath, _) succeeds
    pc,              \* position in drawURL
    urlFontSize,     \* the local urlFontSize
    loadedSize,      \* size of the face loaded in dc (0: none)
    measured,        \* sizes at which the url was measured, in order
    y,               \* the scan loop's y, in half pixels
    targetY,         \* the local targetY, in half pixels
    drawn,           \* the DrawString call made: <<size, y>>, or <<>>
    err,             \* the error returned ("" for nil or not returned yet)
    \* a second drawURL on the same canvas and title face
    prevDrawn,       \* the DrawString call of the earlier drawURL, or <<>>
    \* drawTitle(dc, title, fontPath, width)
    titleDraws,      \* the drawTextWithShadow calls made, in order: <<line, y>>
    titleErr,        \* the error drawTitle returned ("" for nil)
    titleDone,       \* drawTitle has returned
    \* resolveFontPathWithPaths(customFont, systemPaths)
    customFont,      \* the -title-font / -url-font value ("" when not given)
    systemPaths,     \* the list of system font paths to search
    files,           \* the paths for which os.Stat succeeds
    resolved,        \* the (path, error) returned, or <<>>
    \* runWithResolver(resolver)
    runPc,           \* position in runWithResolver
    trace,           \* the steps runWithResolver has executed, in order
    runErr,          \* the error runWithResolver returned ("" for nil)
    faults,          \* what fails in this run besides the font loads
    debug,           \* opts.Debug
    saved,           \* dc.SavePNG has written the output file
    \* two renders in one process, their statements interleaved
    parIn,           \* per render: its title, canvas width and url width
    parPc,           \* per render: the statement it is at
    parSize,         \* per render: urlFontSize of its drawURL
    parLines,        \* per render: the lines of its title so far
    parDraws,        \* per render: its drawTextWithShadow calls <<line, y>>
    parCaption,      \* per render: its DrawString call <<size, y>>, or <<>>
    dcFace           \* per drawing context: the face loaded, <<kind, size>>

wrapVars == <<title, wrapWidth, greedy, wrapped, wrapDone>>
cascadeVars == <<cascPc, cascIdx, cascLog>>
balanceVars == <<input, slice, calls, cascadeVars>>
urlVars == <<urlEms, width, height, titleFontHeight, urlFontOk, titleFontOk, pc,
             urlFontSize, loadedSize, measured, y, targetY, drawn, err>>
gridVars == <<prevDrawn>>
titleVars == <<titleDraws, titleErr, titleDone>>
resolveVars == <<customFont, systemPaths, files, resolved>>
runVars == <<runPc, trace, runErr, faults, debug, saved>>
parVars == <<parIn, parPc, parSize, parLines, parDraws, parCaption, dcFace>>
restVars == <<gridVars, titleVars, resolveVars, runVars, parVars>>
vars == <<wrapVars, balanceVars, urlVars, restVars>>

\* ---------------------------------------------------------------- bounds
\* Longest title, in words, that the wrap specification draws.
MaxWords == 6
\* Largest maxWidth (in advance units) handed to wrapText.
MaxWidth == 12
\* Most lines and most words per line handed to preventOrphans directly.
MaxLines == 4
MaxLineWords == 3
\* How many times in a row preventOrphans is applied to the same slice.
MaxCalls == 2
\* Caption widths: urlEms \in {0, UrlEmStep, ..., MaxUrlK * UrlEmStep}.
UrlEmStep == 9
MaxUrlK == 8
\* Canvas widths {WidthStep, ..., MaxWidthK * WidthStep}.
WidthStep == 400
MaxWidthK == 3
\* Canvas heights {HeightStep, ..., MaxHeightK * HeightStep}.
HeightStep == 157
MaxHeightK == 4
\* Title font heights {FontHeightStep, ..., MaxFontHeightK * FontHeightStep}.
FontHeightStep == 27
MaxFontHeightK == 4
\* Pixels per advance unit of the title face at TitleFontSize.
GlyphPx == 60

\* ------------------------------------------------------ program constants
URLFontSize == 40
URLMinFontSize == 16
URLFontStep == 2
TextTopMargin == 135
TextSideMargin == 60
LineSpacingNum == 3
LineSpacingDen == 2

\* ------------------------------------------------------------- strings
SP == " "

RECURSIVE FieldsFrom(_, _, _, _)
FieldsFrom(s, i, cur, acc) ==
    IF i > Len(s)
    THEN IF cur = <<>> THEN acc ELSE Append(acc, cur)
    ELSE IF s[i] = SP
         THEN FieldsFrom(s, i + 1, <<>>, IF cur = <<>> THEN acc ELSE Append(acc, cur))
         ELSE FieldsFrom(s, i + 1, Append(cur, s[i]), acc)

\* strings.Fields: the maximal runs of non-space characters, in order.
Fields(s) == FieldsFrom(s, 1, <<>>, <<>>)

RECURSIVE Join(_)
\* strings.Join(words, " ")
Join(ws) ==
    IF Len(ws) = 0 THEN <<>>
    ELSE IF Len(ws) = 1 THEN ws[1]
    ELSE ws[1] \o <<SP>> \o Join(Tail(ws))

\* words[:n]
Prefix(ws, n) == SubSeq(ws, 1, n)

\* ------------------------------------------------------- text measurer
\* Horizontal advance of a glyph of the loaded face: a proportional font
\* with a narrow and a wide letter.
Advance(c) == IF c = "W" THEN 3 ELSE 1

RECURSIVE MeasureString(_)
\* dc.MeasureString(s): the width of s, the sum of its glyphs' advances.
MeasureString(s) == IF s = <<>> THEN 0 ELSE Advance(Head(s)) + MeasureString(Tail(s))

\* --------------------------------------------------- balanceLinesUpward
\* lines[i] with Go's 0-based index.
At(lines, i) == lines[i + 1]
\* lines[i] = v with Go's 0-based index.
Put(lines, i, v) == [lines EXCEPT ![i + 1] = v]

\* secondToLastWordStart computed for the last word of the line.
lastWordStart(aboveWords) ==
    Len(Join(Prefix(aboveWords, Len(aboveWords) - 1)))
        + (IF Len(aboveWords) > 1 THEN 1 ELSE 0)

\* Offset at which the second-to-last word of a line begins.
secondToLastWordStart(aboveWords) ==
    Len(Join(Prefix(aboveWords, Len(aboveWords) - 2)))
        + (IF Len(aboveWords) > 2 THEN 1 ELSE 0)

RECURSIVE balanceLoopKeepsWord(_, _)
\* balanceLoop with "lines[idx-1] = lineWithoutLastWord" left out: the word
\* moved down also stays on the line above.
balanceLoopKeepsWord(lines, idx) ==
    IF idx < 1 THEN lines
    ELSE LET currentLine == At(lines, idx)
             aboveWords  == Fields(At(lines, idx - 1))
         IN  IF Len(aboveWords) < 2
             THEN balanceLoopKeepsWord(lines, idx - 1)
             ELSE IF secondToLastWordStart(aboveWords) >= Len(currentLine)
                  THEN balanceLoopKeepsWord(
                           Put(lines, idx, aboveWords[Len(aboveWords)] \o <<SP>> \o currentLine),
                           idx - 1)
                  ELSE lines

RECURSIVE balanceLoopMovesBoth(_, _)
\* balanceLoop moving both hanging words of the line above down, not one.
balanceLoopMovesBoth(lines, idx) ==
    IF idx < 1 THEN lines
    ELSE LET currentLine == At(lines, idx)
             aboveWords  == Fields(At(lines, idx - 1))
             n == Len(aboveWords)
         IN  IF n < 2
             THEN balanceLoopMovesBoth(lines, idx - 1)
             ELSE IF secondToLastWordStart(aboveWords) >= Len(currentLine)
                  THEN balanceLoopMovesBoth(
                           Put(Put(lines, idx - 1, Join(Prefix(aboveWords, n - 2))),
                               idx, aboveWords[n - 1] \o <<SP>> \o aboveWords[n]
                                        \o <<SP>> \o currentLine),
                           idx - 1)
                  ELSE lines

RECURSIVE balanceLoop(_, _)
\* The for loop of balanceLinesUpward, from idx down to 1.
balanceLoop(lines, idx) ==
    IF idx < 1 THEN lines
    ELSE LET currentLine == At(lines, idx)
             aboveLine   == At(lines, idx - 1)
             currentLen  == Len(currentLine)
             aboveWords  == Fields(aboveLine)
         IN  IF Len(aboveWords) < 2
             THEN balanceLoop(lines, idx - 1)
             ELSE LET lineWithoutLastWord == Join(Prefix(aboveWords, Len(aboveWords) - 1))
                      wordToMove == aboveWords[Len(aboveWords)]
                  IN  IF secondToLastWordStart(aboveWords) >= currentLen
                      THEN balanceLoop(
                               Put(Put(lines, idx - 1, lineWithoutLastWord),
                                   idx, wordToMove \o <<SP>> \o currentLine),
                               idx - 1)
                      ELSE lines

balanceLinesUpward(lines, modifiedIdx) ==
    IF modifiedIdx < 1 THEN lines ELSE balanceLoop(lines, modifiedIdx)

\* ------------------------------------------------------- preventOrphans
\* moveWordDown with the moved word put behind the orphan instead of before it.
moveWordDownAppends(lines) ==
    LET n == Len(lines)
        lastLine == At(lines, n - 1)
        prevLineWords == Fields(At(lines, n - 2))
        wordToMove == prevLineWords[Len(prevLineWords)]
        newPrevLine == Join(Prefix(prevLineWords, Len(prevLineWords) - 1))
        newLastLine == lastLine \o <<SP>> \o wordToMove
    IN  balanceLinesUpward(Put(Put(lines, n - 2, newPrevLine), n - 1, newLastLine), n - 2)

\* The orphan fix of preventOrphans (lines 301-310), once both guards passed.
moveWordDown(lines) ==
    LET n == Len(lines)
        lastLine == At(lines, n - 1)
        prevLineWords == Fields(At(lines, n - 2))
        wordToMove == prevLineWords[Len(prevLineWords)]
        newPrevLine == Join(Prefix(prevLineWords, Len(prevLineWords) - 1))
        newLastLine == wordToMove \o <<SP>> \o lastLine
    IN  balanceLinesUpward(Put(Put(lines, n - 2, newPrevLine), n - 1, newLastLine), n - 2)

\* preventOrphans with the second guard off by one: "len(prevLineWords) <= 2".
preventOrphansNeedsThree(lines) ==
    IF Len(lines) < 2 THEN lines
    ELSE IF Len(Fields(At(lines, Len(lines) - 1))) # 1 THEN lines
    ELSE IF Len(Fields(At(lines, Len(lines) - 2))) <= 2 THEN lines
    ELSE moveWordDown(lines)

\* preventOrphans with the second guard written "len(prevLineWords) < 1".
preventOrphansTakesOnlyWord(lines) ==
    IF Len(lines) < 2 THEN lines
    ELSE IF Len(Fields(At(lines, Len(lines) - 1))) # 1 THEN lines
    ELSE IF Len(Fields(At(lines, Len(lines) - 2))) < 1 THEN lines
    ELSE moveWordDown(lines)

\* preventOrphans with the first guard written "len(lastLineWords) > 1".
preventOrphansMoreThanOne(lines) ==
    IF Len(lines) < 2 THEN lines
    ELSE IF Len(Fields(At(lines, Len(lines) - 1))) > 1 THEN lines
    ELSE IF Len(Fields(At(lines, Len(lines) - 2))) < 2 THEN lines
    ELSE moveWordDown(lines)

preventOrphans(lines) ==
    IF Len(lines) < 2 THEN lines
    ELSE LET n == Len(lines)
             lastLine == At(lines, n - 1)
             lastLineWords == Fields(lastLine)
             prevLine == At(lines, n - 2)
             prevLineWords == Fields(prevLine)
         IN  IF Len(lastLineWords) # 1 THEN lines
             ELSE IF Len(prevLineWords) < 2 THEN lines
             ELSE moveWordDown(lines)

\* ------------------------------ preventOrphans, statement by statement
\* "if secondToLastWordStart >= currentLen" with a strict comparison.
hangsPastStrict(aboveWords, currentLine) ==
    secondToLastWordStart(aboveWords) > Len(currentLine)

\* "if secondToLastWordStart >= currentLen": both trailing words of the line
\* above start at or after the end of the current line.
hangsPast(aboveWords, currentLine) ==
    secondToLastWordStart(aboveWords) >= Len(currentLine)

\* One of the three early returns of preventOrphans is taken.
OrphanGuardReturn ==
    /\ cascPc = "start"
    /\ \/ Len(slice) < 2
       \/ /\ Len(slice) >= 2
          /\ \/ Len(Fields(At(slice, Len(slice) - 1))) # 1
             \/ Len(Fields(At(slice, Len(slice) - 2))) < 2
    /\ cascPc' = "returned"
    /\ UNCHANGED <<input, slice, calls, cascIdx, cascLog>>
    /\ UNCHANGED <<wrapVars, urlVars, restVars>>

\* Lines 301-310: the word is moved and balanceLinesUpward(lines, len-2) entered.
OrphanFix ==
    /\ cascPc = "start"
    /\ Len(slice) >= 2
    /\ Len(Fields(At(slice, Len(slice) - 1))) = 1
    /\ Len(Fields(At(slice, Len(slice) - 2))) >= 2
    /\ LET n == Len(slice)
           lastLine == At(slice, n - 1)
           prevLineWords == Fields(At(slice, n - 2))
           wordToMove == prevLineWords[Len(prevLineWords)]
           newPrevLine == Join(Prefix(prevLineWords, Len(prevLineWords) - 1))
           newLastLine == wordToMove \o <<SP>> \o lastLine
       IN  /\ slice' = Put(Put(slice, n - 2, newPrevLine), n - 1, newLastLine)
           /\ cascIdx' = n - 2
    /\ cascPc' = "loop"
    /\ UNCHANGED <<input, calls, cascLog>>
    /\ UNCHANGED <<wrapVars, urlVars, restVars>>

\* CascadeSkip with "break" in place of "continue".
CascadeSkipStops ==
    /\ cascPc = "loop"
    /\ cascIdx >= 1
    /\ Len(Fields(At(slice, cascIdx - 1))) < 2
    /\ cascPc' = "returned"
    /\ cascLog' = Append(cascLog, <<cascIdx, "skip">>)
    /\ UNCHANGED <<input, slice, calls, cascIdx>>
    /\ UNCHANGED <<wrapVars, urlVars, restVars>>

\* "if len(aboveWords) < 2 { continue }"
CascadeSkip ==
    /\ cascPc = "loop"
    /\ cascIdx >= 1
    /\ Len(Fields(At(slice, cascIdx - 1))) < 2
    /\ cascIdx' = cascIdx - 1
    /\ cascLog' = Append(cascLog, <<cascIdx, "skip">>)
    /\ UNCHANGED <<input, slice, calls, cascPc>>
    /\ UNCHANGED <<wrapVars, urlVars, restVars>>

\* The then-branch of the loop body: the last word of the line above moves down.
CascadeMove ==
    /\ cascPc = "loop"
    /\ cascIdx >= 1
    /\ LET currentLine == At(slice, cascIdx)
           aboveWords == Fields(At(slice, cascIdx - 1))
           lineWithoutLastWord == Join(Prefix(aboveWords, Len(aboveWords) - 1))
           wordToMove == aboveWords[Len(aboveWords)]
       IN  /\ Len(aboveWords) >= 2
           /\ hangsPast(aboveWords, currentLine)
           /\ slice' = Put(Put(slice, cascIdx - 1, lineWithoutLastWord),
                           cascIdx, wordToMove \o <<SP>> \o currentLine)
    /\ cascIdx' = cascIdx - 1
    /\ cascLog' = Append(cascLog, <<cascIdx, "move">>)
    /\ UNCHANGED <<input, calls, cascPc>>
    /\ UNCHANGED <<wrapVars, urlVars, restVars>>

\* CascadeBreak with the "break" left out: the loop goes on to idx-1.
CascadeBreakContinues ==
    /\ cascPc = "loop"
    /\ cascIdx >= 1
    /\ Len(Fields(At(slice, cascIdx - 1))) >= 2
    /\ ~hangsPast(Fields(At(slice, cascIdx - 1)), At(slice, cascIdx))
    /\ cascIdx' = cascIdx - 1
    /\ cascLog' = Append(cascLog, <<cascIdx, "stop">>)
    /\ UNCHANGED <<input, slice, calls, cascPc>>
    /\ UNCHANGED <<wrapVars, urlVars, restVars>>

\* The else-branch of the loop body: break, then "return lines".
CascadeBreak ==
    /\ cascPc = "loop"
    /\ cascIdx >= 1
    /\ Len(Fields(At(slice, cascIdx - 1))) >= 2
    /\ ~hangsPast(Fields(At(slice, cascIdx - 1)), At(slice, cascIdx))
    /\ cascPc' = "returned"
    /\ cascLog' = Append(cascLog, <<cascIdx, "stop">>)
    /\ UNCHANGED <<input, slice, calls, cascIdx>>
    /\ UNCHANGED <<wrapVars, urlVars, restVars>>

\* "if modifiedIdx < 1 { return lines }", or the loop ran out: "return lines".
CascadeExit ==
    /\ cascPc = "loop"
    /\ cascIdx < 1
    /\ cascPc' = "returned"
    /\ UNCHANGED <<input, slice, calls, cascIdx, cascLog>>
    /\ UNCHANGED <<wrapVars, urlVars, restVars>>

\* ------------------------------------------------------------- wrapText
RECURSIVE wrapLoopBreaksAtEqual(_, _, _, _, _)
\* wrapLoop with the break test written "w >= maxWidth".
wrapLoopBreaksAtEqual(words, i, currentLine, lines, maxWidth) ==
    IF i > Len(words)
    THEN IF Len(currentLine) > 0 THEN Append(lines, currentLine) ELSE lines
    ELSE LET word == words[i]
             testLine == IF currentLine # <<>> THEN currentLine \o <<SP>> \o word
                                              ELSE word
             w == MeasureString(testLine)
         IN  IF w >= maxWidth /\ Len(currentLine) > 0
             THEN wrapLoopBreaksAtEqual(words, i + 1, word, Append(lines, currentLine), maxWidth)
             ELSE wrapLoopBreaksAtEqual(words, i + 1, testLine, lines, maxWidth)

RECURSIVE wrapLoopKeepsOverflowing(_, _, _, _, _)
\* wrapLoop that does not break a line which already overflows.
wrapLoopKeepsOverflowing(words, i, currentLine, lines, maxWidth) ==
    IF i > Len(words)
    THEN IF Len(currentLine) > 0 THEN Append(lines, currentLine) ELSE lines
    ELSE LET word == words[i]
             testLine == IF currentLine # <<>> THEN currentLine \o <<SP>> \o word
                                              ELSE word
             w == MeasureString(testLine)
         IN  IF w > maxWidth /\ Len(currentLine) > 0
                /\ MeasureString(currentLine) <= maxWidth
             THEN wrapLoopKeepsOverflowing(words, i + 1, word, Append(lines, currentLine), maxWidth)
             ELSE wrapLoopKeepsOverflowing(words, i + 1, testLine, lines, maxWidth)

RECURSIVE wrapLoopCommitsEmpty(_, _, _, _, _)
\* wrapLoop breaking the line without the "currentLine.Len() > 0" test.
wrapLoopCommitsEmpty(words, i, currentLine, lines, maxWidth) ==
    IF i > Len(words)
    THEN IF Len(currentLine) > 0 THEN Append(lines, currentLine) ELSE lines
    ELSE LET word == words[i]
             testLine == IF currentLine # <<>> THEN currentLine \o <<SP>> \o word
                                              ELSE word
             w == MeasureString(testLine)
         IN  IF w > maxWidth
             THEN wrapLoopCommitsEmpty(words, i + 1, word, Append(lines, currentLine), maxWidth)
             ELSE wrapLoopCommitsEmpty(words, i + 1, testLine, lines, maxWidth)

RECURSIVE wrapLoop(_, _, _, _, _)
\* The for loop of wrapText over words[i..]; returns the committed lines
\* followed by the line still in the buffer.
wrapLoop(words, i, currentLine, lines, maxWidth) ==
    IF i > Len(words)
    THEN IF Len(currentLine) > 0 THEN Append(lines, currentLine) ELSE lines
    ELSE LET word == words[i]
             testLine == IF currentLine # <<>> THEN currentLine \o <<SP>> \o word
                                              ELSE word
             w == MeasureString(testLine)
         IN  IF w > maxWidth /\ Len(currentLine) > 0
             THEN wrapLoop(words, i + 1, word, Append(lines, currentLine), maxWidth)
             ELSE wrapLoop(words, i + 1, testLine, lines, maxWidth)

\* The lines wrapText has built when it reaches "return preventOrphans(lines)".
greedyLines(text, maxWidth) ==
    LET words == Fields(text)
    IN  IF Len(words) = 0 THEN <<>> ELSE wrapLoop(words, 1, <<>>, <<>>, maxWidth)

wrapText(text, maxWidth) ==
    LET words == Fields(text)
    IN  IF Len(words) = 0 THEN <<>> ELSE preventOrphans(greedyLines(text, maxWidth))

\* ------------------------------------------------ inputs of the wrap runs
\* Words of a title: a narrow letter, a wide letter, a long wide word.
TitleWords == {<<"i">>, <<"W">>, <<"W", "W", "W">>}

WordSeqs(ws, n) == UNION {[1..k -> ws] : k \in 0..n}

RECURSIVE JoinWide(_)
\* The words separated by two spaces, with a leading and a trailing space.
JoinWide(ws) ==
    IF Len(ws) = 0 THEN <<SP>> ELSE <<SP>> \o ws[1] \o <<SP>> \o JoinWide(Tail(ws))

\* Titles typed with single spaces between the words.
SpacedTitles == {Join(ws) : ws \in WordSeqs(TitleWords, MaxWords)}

\* Titles as typed on the command line: single-spaced, or with extra spaces.
TitleTexts == SpacedTitles \cup {JoinWide(ws) : ws \in WordSeqs(TitleWords, MaxWords)}

\* ---------------------------------------------- inputs of preventOrphans
\* Lines of 1..MaxLineWords words "a", the first or the last possibly "bb".
ShapedLines ==
    UNION {{Join([i \in 1..k |-> <<"a">>]),
            Join([i \in 1..k |-> IF i = k THEN <<"b", "b">> ELSE <<"a">>]),
            Join([i \in 1..k |-> IF i = 1 THEN <<"b", "b">> ELSE <<"a">>])}
           : k \in 1..MaxLineWords}

\* Lines that are not single-spaced word lists: empty, padded.
RawLines == {<<>>, <<SP, "a">>, <<"a", SP, SP, "a">>}

LineSet == ShapedLines \cup RawLines

\* ------------------------------------------------------- inputs of drawURL
UrlWidths == {k * UrlEmStep : k \in 0..MaxUrlK}
CanvasWidths == {k * WidthStep : k \in 1..MaxWidthK}
CanvasHeights == {k * HeightStep : k \in 1..MaxHeightK}
FontHeights == {k * FontHeightStep : k \in 1..MaxFontHeightK}

\* --------------------------------------------------------------- drawURL
\* maxWidth := float64(width) - (2 * TextSideMargin)
urlMaxWidth == width - 2 * TextSideMargin

\* dc.MeasureString(url) with the url face loaded at size: the advance of
\* the text scales with the point size.
MeasureURL(size) == urlEms * size

\* gridBaseline with the line index dropped: every line on the first baseline.
gridBaselineFirstLineOnly(i) ==
    2 * TextTopMargin + 2 * titleFontHeight

\* gridBaseline without "+ verticalOffset".
gridBaselineNoOffset(i) ==
    2 * TextTopMargin + (2 * i * titleFontHeight * LineSpacingNum) \div LineSpacingDen

\* y := TextTopMargin + float64(i)*fontHeight*LineSpacing + verticalOffset,
\* the baseline of title line i, in half pixels.
gridBaseline(i) ==
    2 * TextTopMargin
        + (2 * i * titleFontHeight * LineSpacingNum) \div LineSpacingDen
        + 2 * titleFontHeight

\* All positions below are in half pixels.
firstBaseline == 2 * (TextTopMargin + titleFontHeight)
baselineStep == (2 * titleFontHeight * LineSpacingNum) \div LineSpacingDen
maxY == 2 * height - TextTopMargin

\* FitMeasure without the "break": the size keeps going down after a fit.
FitMeasureNoBreak ==
    /\ pc = "fit"
    /\ urlFontSize >= URLMinFontSize
    /\ IF ~urlFontOk
       THEN /\ pc' = "error"
            /\ err' = "load font for url"
            /\ UNCHANGED <<urlFontSize, loadedSize, measured>>
       ELSE /\ loadedSize' = urlFontSize
            /\ measured' = Append(measured, urlFontSize)
            /\ err' = err
            /\ pc' = "fit"
            /\ urlFontSize' = urlFontSize - URLFontStep
    /\ UNCHANGED <<urlEms, width, height, titleFontHeight, urlFontOk, titleFontOk,
                   y, targetY, drawn>>
    /\ UNCHANGED <<wrapVars, balanceVars, restVars>>

\* One iteration of "for urlFontSize >= URLMinFontSize".
FitMeasure ==
    /\ pc = "fit"
    /\ urlFontSize >= URLMinFontSize
    /\ IF ~urlFontOk
       THEN /\ pc' = "error"
            /\ err' = "load font for url"
            /\ UNCHANGED <<urlFontSize, loadedSize, measured>>
       ELSE /\ loadedSize' = urlFontSize
            /\ measured' = Append(measured, urlFontSize)
            /\ err' = err
            /\ IF MeasureURL(urlFontSize) <= urlMaxWidth
               THEN pc' = "final" /\ urlFontSize' = urlFontSize
               ELSE pc' = "fit" /\ urlFontSize' = urlFontSize - URLFontStep
    /\ UNCHANGED <<urlEms, width, height, titleFontHeight, urlFontOk, titleFontOk,
                   y, targetY, drawn>>
    /\ UNCHANGED <<wrapVars, balanceVars, restVars>>

\* The loop condition "urlFontSize >= URLMinFontSize" is false: leave the loop.
\* FitExhausted treating a caption that fits at no size as a failure.
FitExhaustedFails ==
    /\ pc = "fit"
    /\ ~(urlFontSize >= URLMinFontSize)
    /\ pc' = "error"
    /\ err' = "url does not fit"
    /\ UNCHANGED <<urlEms, width, height, titleFontHeight, urlFontOk, titleFontOk,
                   urlFontSize, loadedSize, measured, y, targetY, drawn>>
    /\ UNCHANGED <<wrapVars, balanceVars, restVars>>

FitExhausted ==
    /\ pc = "fit"
    /\ ~(urlFontSize >= URLMinFontSize)
    /\ pc' = "final"
    /\ UNCHANGED <<urlEms, width, height, titleFontHeight, urlFontOk, titleFontOk,
                   urlFontSize, loadedSize, measured, y, targetY, drawn, err>>
    /\ UNCHANGED <<wrapVars, balanceVars, restVars>>

\* FinalLoad taking the grid's line height from the face loaded in dc (the
\* url face, whose height grows with its size) instead of getFontHeight of
\* the title face.
FinalLoadGridFromDc ==
    /\ pc = "final"
    /\ IF ~urlFontOk
       THEN /\ pc' = "error"
            /\ err' = "load font for url"
            /\ UNCHANGED <<loadedSize, y, targetY>>
       ELSE /\ pc' = "scan"
            /\ err' = err
            /\ loadedSize' = urlFontSize
            /\ targetY' = 2 * (TextTopMargin + urlFontSize)
            /\ y' = 2 * (TextTopMargin + urlFontSize)
    /\ UNCHANGED <<urlEms, width, height, titleFontHeight, urlFontOk, titleFontOk,
                   urlFontSize, measured, drawn>>
    /\ UNCHANGED <<wrapVars, balanceVars, restVars>>

\* "Ensure font is loaded at final size", getFontHeight, and the start of the
\* baseline scan.
FinalLoad ==
    /\ pc = "final"
    /\ IF ~urlFontOk
       THEN /\ pc' = "error"
            /\ err' = "load font for url"
            /\ UNCHANGED <<loadedSize, y, targetY>>
       ELSE IF ~titleFontOk
       THEN /\ pc' = "error"
            /\ err' = "load title font for baseline"
            /\ loadedSize' = urlFontSize
            /\ UNCHANGED <<y, targetY>>
       ELSE /\ pc' = "scan"
            /\ err' = err
            /\ loadedSize' = urlFontSize
            /\ targetY' = firstBaseline
            /\ y' = firstBaseline
    /\ UNCHANGED <<urlEms, width, height, titleFontHeight, urlFontOk, titleFontOk,
                   urlFontSize, measured, drawn>>
    /\ UNCHANGED <<wrapVars, balanceVars, restVars>>

\* ScanStep without the post statement "y += baselineStep".
ScanStepNoAdvance ==
    /\ pc = "scan"
    /\ y <= maxY
    /\ targetY' = y
    /\ y' = y
    /\ UNCHANGED <<urlEms, width, height, titleFontHeight, urlFontOk, titleFontOk, pc,
                   urlFontSize, loadedSize, measured, drawn, err>>
    /\ UNCHANGED <<wrapVars, balanceVars, restVars>>

\* One iteration of "for y := firstBaseline; y <= maxY; y += baselineStep".
ScanStep ==
    /\ pc = "scan"
    /\ y <= maxY
    /\ targetY' = y
    /\ y' = y + baselineStep
    /\ UNCHANGED <<urlEms, width, height, titleFontHeight, urlFontOk, titleFontOk, pc,
                   urlFontSize, loadedSize, measured, drawn, err>>
    /\ UNCHANGED <<wrapVars, balanceVars, restVars>>

\* DrawCaption drawing at the loop variable y instead of targetY.
DrawCaptionAtLoopY ==
    /\ pc = "scan"
    /\ ~(y <= maxY)
    /\ drawn' = <<loadedSize, y>>
    /\ pc' = "done"
    /\ UNCHANGED <<urlEms, width, height, titleFontHeight, urlFontOk, titleFontOk,
                   urlFontSize, loadedSize, measured, y, targetY, err>>
    /\ UNCHANGED <<wrapVars, balanceVars, restVars>>

\* dc.DrawString(url, TextSideMargin, targetY); return nil
DrawCaption ==
    /\ pc = "scan"
    /\ ~(y <= maxY)
    /\ drawn' = <<loadedSize, targetY>>
    /\ pc' = "done"
    /\ UNCHANGED <<urlEms, width, height, titleFontHeight, urlFontOk, titleFontOk,
                   urlFontSize, loadedSize, measured, y, targetY, err>>
    /\ UNCHANGED <<wrapVars, balanceVars, restVars>>

\* ------------------------------------------------------------- drawTitle
\* maxWidth := float64(width) - (2 * TextSideMargin), in advance units of the
\* title face: a line of w units is wider than maxWidth pixels exactly when
\* w exceeds this quotient.
titleMaxWidth == (width - 2 * TextSideMargin) \div GlyphPx

\* The drawTextWithShadow calls of the loop over the wrapped lines.
titleLoop(ls) == [i \in 1..Len(ls) |-> <<ls[i], gridBaseline(i - 1)>>]

\* The body of drawTitle: load the face, wrap, draw every line.
drawTitle ==
    IF ~titleFontOk
    THEN /\ titleErr' = "load font"
         /\ titleDraws' = <<>>
         /\ UNCHANGED <<wrapWidth, greedy, wrapped, wrapDone>>
    ELSE /\ titleErr' = ""
         /\ wrapWidth' = titleMaxWidth
         /\ greedy' = greedyLines(title, titleMaxWidth)
         /\ wrapped' = wrapText(title, titleMaxWidth)
         /\ wrapDone' = TRUE
         /\ titleDraws' = titleLoop(wrapText(title, titleMaxWidth))

\* drawTitle(dc, title, fontPath, width) called on its own.
DrawTitleCall ==
    /\ ~titleDone
    /\ runPc = "idle"
    /\ drawTitle
    /\ titleDone' = TRUE
    /\ UNCHANGED <<title, balanceVars, urlVars, gridVars, resolveVars, runVars, parVars>>

\* ---------------------------------------------- resolveFontPathWithPaths
MaxSystemPaths == 3

\* filepath.Join("fonts", "OpenSans-Bold.ttf")
LocalFontPath == "fonts/OpenSans-Bold.ttf"
CustomFontPath == "/custom/font.ttf"
SystemFontPaths == {"/sys/a.ttf", "/sys/b.ttf", "/sys/c.ttf"}
AllFontPaths == {LocalFontPath, CustomFontPath} \cup SystemFontPaths

\* A nil error.
NoError == <<>>
\* fmt.Errorf("font file not found at %s and no system fonts found. ...", fontPath)
ErrFontNotFound(fontPath) ==
    <<"font file not found at ", fontPath, " and no system fonts found">>

RECURSIVE searchSystemPaths(_, _)
\* "for _, p := range systemPaths": the first path os.Stat finds, or the error.
searchSystemPaths(paths, existing) ==
    IF paths = <<>> THEN <<"", ErrFontNotFound(LocalFontPath)>>
    ELSE IF Head(paths) \in existing THEN <<Head(paths), NoError>>
    ELSE searchSystemPaths(Tail(paths), existing)

\* resolveFontPathWithPaths falling back when the custom path does not exist.
resolveFontPathChecksCustom(custom, paths, existing) ==
    IF custom # "" /\ custom \in existing THEN <<custom, NoError>>
    ELSE IF LocalFontPath \in existing THEN <<LocalFontPath, NoError>>
    ELSE searchSystemPaths(paths, existing)

\* The pair (path, error) resolveFontPathWithPaths returns.
resolveFontPathWithPaths(custom, paths, existing) ==
    IF custom # "" THEN <<custom, NoError>>
    ELSE IF LocalFontPath \in existing THEN <<LocalFontPath, NoError>>
    ELSE searchSystemPaths(paths, existing)

ResolveCall ==
    /\ resolved = <<>>
    /\ resolved' = resolveFontPathWithPaths(customFont, systemPaths, files)
    /\ UNCHANGED <<customFont, systemPaths, files>>
    /\ UNCHANGED <<wrapVars, balanceVars, urlVars, gridVars, titleVars, runVars, parVars>>

\* ------------------------------------------------------- runWithResolver
\* opts, err := parseFlags(): -version, or a missing -title or -url, is an error.
RunParseFlags ==
    /\ runPc = "start"
    /\ trace' = Append(trace, "parseFlags")
    /\ IF "version" \in faults
       THEN runPc' = "returned" /\ runErr' = "version requested"
       ELSE IF title = <<>> \/ urlEms = 0
       THEN runPc' = "returned" /\ runErr' = "title and url are required"
       ELSE runPc' = "resolveTitle" /\ runErr' = runErr
    /\ UNCHANGED <<faults, debug, saved>>
    /\ UNCHANGED <<wrapVars, balanceVars, urlVars, gridVars, titleVars, resolveVars, parVars>>

\* RunResolveTitle with the resolver's error dropped.
RunResolveTitleIgnoresError ==
    /\ runPc = "resolveTitle"
    /\ trace' = Append(trace, "resolveTitle")
    /\ runPc' = "resolveURL"
    /\ UNCHANGED <<runErr, faults, debug, saved>>
    /\ UNCHANGED <<wrapVars, balanceVars, urlVars, gridVars, titleVars, resolveVars, parVars>>

\* titleFontPath, err := resolver(opts.TitleFont)
RunResolveTitle ==
    /\ runPc = "resolveTitle"
    /\ trace' = Append(trace, "resolveTitle")
    /\ IF "resolveTitle" \in faults
       THEN runPc' = "returned" /\ runErr' = "title font not found"
       ELSE runPc' = "resolveURL" /\ runErr' = runErr
    /\ UNCHANGED <<faults, debug, saved>>
    /\ UNCHANGED <<wrapVars, balanceVars, urlVars, gridVars, titleVars, resolveVars, parVars>>

\* urlFontPath, err := resolver(opts.URLFont)
RunResolveURL ==
    /\ runPc = "resolveURL"
    /\ trace' = Append(trace, "resolveURL")
    /\ IF "resolveURL" \in faults
       THEN runPc' = "returned" /\ runErr' = "url font not found"
       ELSE runPc' = "background" /\ runErr' = runErr
    /\ UNCHANGED <<faults, debug, saved>>
    /\ UNCHANGED <<wrapVars, balanceVars, urlVars, gridVars, titleVars, resolveVars, parVars>>

\* dc := gg.NewContext(...); drawBackground(dc, ...)
RunDrawBackground ==
    /\ runPc = "background"
    /\ trace' = Append(trace, "drawBackground")
    /\ runPc' = "title"
    /\ UNCHANGED <<runErr, faults, debug, saved>>
    /\ UNCHANGED <<wrapVars, balanceVars, urlVars, gridVars, titleVars, resolveVars, parVars>>

\* if err := drawTitle(dc, opts.Title, titleFontPath, opts.Width); err != nil
RunDrawTitle ==
    /\ runPc = "title"
    /\ trace' = Append(trace, "drawTitle")
    /\ drawTitle
    /\ titleDone' = TRUE
    /\ IF ~titleFontOk
       THEN runPc' = "returned" /\ runErr' = "load font"
       ELSE runPc' = (IF debug THEN "debug" ELSE "url") /\ runErr' = runErr
    /\ UNCHANGED <<faults, debug, saved>>
    /\ UNCHANGED <<title, balanceVars, urlVars, gridVars, resolveVars, parVars>>

\* if opts.Debug: load the title face again and drawDebugBaselines.
RunDebugBaselines ==
    /\ runPc = "debug"
    /\ trace' = Append(trace, "debugBaselines")
    /\ IF ~titleFontOk
       THEN runPc' = "returned" /\ runErr' = "load font for debug"
       ELSE runPc' = "url" /\ runErr' = runErr
    /\ UNCHANGED <<faults, debug, saved>>
    /\ UNCHANGED <<wrapVars, balanceVars, urlVars, gridVars, titleVars, resolveVars, parVars>>

\* drawURL(dc, opts.URL, titleFontPath, urlFontPath, ...) is entered.
RunDrawURL ==
    /\ runPc = "url"
    /\ trace' = Append(trace, "drawURL")
    /\ runPc' = "inURL"
    /\ pc' = "fit"
    /\ urlFontSize' = URLFontSize
    /\ UNCHANGED <<urlEms, width, height, titleFontHeight, urlFontOk, titleFontOk,
                   loadedSize, measured, y, targetY, drawn, err>>
    /\ UNCHANGED <<runErr, faults, debug, saved>>
    /\ UNCHANGED <<wrapVars, balanceVars, gridVars, titleVars, resolveVars, parVars>>

\* drawURL has returned: "if err := drawURL(...); err != nil { return err }".
RunAfterURL ==
    /\ runPc = "inURL"
    /\ pc \in {"done", "error"}
    /\ IF pc = "error"
       THEN runPc' = "returned" /\ runErr' = err
       ELSE runPc' = "save" /\ runErr' = runErr
    /\ UNCHANGED <<trace, faults, debug, saved>>
    /\ UNCHANGED <<wrapVars, balanceVars, urlVars, gridVars, titleVars, resolveVars, parVars>>

\* dc.SavePNG(opts.Output), then "return nil".
RunSavePNG ==
    /\ runPc = "save"
    /\ trace' = Append(trace, "savePNG")
    /\ runPc' = "returned"
    /\ IF "save" \in faults
       THEN runErr' = "save png" /\ saved' = saved
       ELSE runErr' = runErr /\ saved' = TRUE
    /\ UNCHANGED <<faults, debug>>
    /\ UNCHANGED <<wrapVars, balanceVars, urlVars, gridVars, titleVars, resolveVars, parVars>>

\* ------------------------------------------- two renders in one process
TitleFontSize == 72
Renders == {1, 2}

\* The context of every render is the package's one context.
dcShared(r) == 1

\* The drawing context render r measures and draws with: the one its own
\* runWithResolver made with gg.NewContext.
dcOf(r) == r

\* How many glyph units fit in maxWidthPx pixels when text is measured with
\* the face loaded in a context: glyphs scale with the point size.
unitsThatFit(face, maxWidthPx) ==
    (maxWidthPx * TitleFontSize) \div (GlyphPx * face[2])

\* measureFontHeight(dc): the "Mg" height of the face loaded in a context.
fontHeightOf(face) == (titleFontHeight * face[2]) \div TitleFontSize

\* TextTopMargin + float64(i)*fontHeight*LineSpacing + verticalOffset for a
\* measured fontHeight h, in half pixels.
baselineWith(h, i) ==
    2 * TextTopMargin + (2 * i * h * LineSpacingNum) \div LineSpacingDen + 2 * h

RECURSIVE fitSize(_, _, _)
\* The size the loop "for urlFontSize >= URLMinFontSize" of drawURL ends with.
fitSize(ems, maxWidthPx, size) ==
    IF size < URLMinFontSize THEN size
    ELSE IF ems * size <= maxWidthPx THEN size
    ELSE fitSize(ems, maxWidthPx, size - URLFontStep)

RECURSIVE lastBaseline(_, _)
\* targetY after "for y := firstBaseline; y <= maxY; y += baselineStep".
lastBaseline(yy, target) ==
    IF yy <= maxY THEN lastBaseline(yy + baselineStep, yy) ELSE target

\* Render r executes one statement; nothing outside the renders changes.
ParFrame(r) ==
    /\ parIn' = parIn
    /\ UNCHANGED <<wrapVars, balanceVars, urlVars, gridVars, titleVars, resolveVars,
                   runVars>>

\* drawTitle: dc.LoadFontFace(fontPath, TitleFontSize)
ParLoadTitle(r) ==
    /\ parPc[r] = "loadTitle"
    /\ dcFace' = [dcFace EXCEPT ![dcOf(r)] = <<"title", TitleFontSize>>]
    /\ parPc' = [parPc EXCEPT ![r] = "wrap"]
    /\ UNCHANGED <<parSize, parLines, parDraws, parCaption>>
    /\ ParFrame(r)

\* wrapText: the greedy loop, measuring with the face loaded in dc.
ParWrap(r) ==
    /\ parPc[r] = "wrap"
    /\ parLines' = [parLines EXCEPT ![r] =
           greedyLines(parIn[r].title,
                       unitsThatFit(dcFace[dcOf(r)],
                                    parIn[r].width - 2 * TextSideMargin))]
    /\ parPc' = [parPc EXCEPT ![r] = "balance"]
    /\ UNCHANGED <<parSize, parDraws, parCaption, dcFace>>
    /\ ParFrame(r)

\* wrapText: return preventOrphans(lines)
ParBalance(r) ==
    /\ parPc[r] = "balance"
    /\ parLines' = [parLines EXCEPT ![r] = preventOrphans(parLines[r])]
    /\ parPc' = [parPc EXCEPT ![r] = "place"]
    /\ UNCHANGED <<parSize, parDraws, parCaption, dcFace>>
    /\ ParFrame(r)

\* drawTitle: fontHeight := measureFontHeight(dc) and the loop over the lines.
ParPlaceTitle(r) ==
    /\ parPc[r] = "place"
    /\ parDraws' = [parDraws EXCEPT ![r] =
           [i \in 1..Len(parLines[r]) |->
               <<parLines[r][i], baselineWith(fontHeightOf(dcFace[dcOf(r)]), i - 1)>>]]
    /\ parSize' = [parSize EXCEPT ![r] = URLFontSize]
    /\ parPc' = [parPc EXCEPT ![r] = "fit"]
    /\ UNCHANGED <<parLines, parCaption, dcFace>>
    /\ ParFrame(r)

\* drawURL: one iteration of the size loop, or its end.
ParFit(r) ==
    /\ parPc[r] = "fit"
    /\ IF parSize[r] >= URLMinFontSize
       THEN /\ dcFace' = [dcFace EXCEPT ![dcOf(r)] = <<"url", parSize[r]>>]
            /\ IF parIn[r].urlEms * parSize[r] <= parIn[r].width - 2 * TextSideMargin
               THEN parPc' = [parPc EXCEPT ![r] = "final"] /\ parSize' = parSize
               ELSE /\ parSize' = [parSize EXCEPT ![r] = parSize[r] - URLFontStep]
                    /\ parPc' = parPc
       ELSE /\ parPc' = [parPc EXCEPT ![r] = "final"]
            /\ UNCHANGED <<parSize, dcFace>>
    /\ UNCHANGED <<parLines, parDraws, parCaption>>
    /\ ParFrame(r)

\* drawURL: "Ensure font is loaded at final size".
ParFinalLoad(r) ==
    /\ parPc[r] = "final"
    /\ dcFace' = [dcFace EXCEPT ![dcOf(r)] = <<"url", parSize[r]>>]
    /\ parPc' = [parPc EXCEPT ![r] = "caption"]
    /\ UNCHANGED <<parSize, parLines, parDraws, parCaption>>
    /\ ParFrame(r)

\* drawURL: getFontHeight on a context of its own, the scan, and
\* dc.DrawString with the face then loaded in dc.
ParCaption(r) ==
    /\ parPc[r] = "caption"
    /\ parCaption' = [parCaption EXCEPT ![r] =
           <<dcFace[dcOf(r)][2], lastBaseline(firstBaseline, firstBaseline)>>]
    /\ parPc' = [parPc EXCEPT ![r] = "done"]
    /\ UNCHANGED <<parSize, parLines, parDraws, dcFace>>
    /\ ParFrame(r)

\* drawURL is called again for the same canvas and title face, with another
\* url text or url face (a caption of another width), on a fresh context.
DrawURLAgain ==
    /\ pc = "done"
    /\ prevDrawn' = drawn
    /\ urlEms' \in UrlWidths
    /\ pc' = "fit"
    /\ urlFontSize' = URLFontSize
    /\ loadedSize' = 0 /\ measured' = <<>>
    /\ y' = 0 /\ targetY' = 0 /\ drawn' = <<>> /\ err' = ""
    /\ UNCHANGED <<width, height, titleFontHeight, urlFontOk, titleFontOk>>
    /\ UNCHANGED <<wrapVars, balanceVars, titleVars, resolveVars, runVars, parVars>>

\* ------------------------------------------------------- the other calls
\* lines := wrapText(dc, title, maxWidth)
WrapTextCall ==
    /\ ~wrapDone
    /\ greedy' = greedyLines(title, wrapWidth)
    /\ wrapped' = wrapText(title, wrapWidth)
    /\ wrapDone' = TRUE
    /\ UNCHANGED <<title, wrapWidth>>
    /\ UNCHANGED <<balanceVars, urlVars, restVars>>

\* result := preventOrphans(lines): the slice is rewritten in place and the
\* same slice is returned.
PreventOrphansCall ==
    /\ calls < MaxCalls
    /\ slice' = preventOrphans(slice)
    /\ calls' = calls + 1
    /\ UNCHANGED <<input, cascadeVars>>
    /\ UNCHANGED <<wrapVars, urlVars, restVars>>

\* ------------------------------------------------------- specifications
WrapIdle ==
    /\ title = <<>> /\ wrapWidth = 0 /\ greedy = <<>> /\ wrapped = <<>>
    /\ wrapDone = FALSE

CascadeIdle ==
    /\ cascPc = "idle" /\ cascIdx = 0 /\ cascLog = <<>>

BalanceIdle ==
    /\ input = <<>> /\ slice = <<>> /\ calls = 0
    /\ CascadeIdle

UrlIdle ==
    /\ urlEms = 0 /\ width = 0 /\ height = 0 /\ titleFontHeight = 0
    /\ urlFontOk = TRUE /\ titleFontOk = TRUE /\ pc = "idle"
    /\ urlFontSize = 0 /\ loadedSize = 0 /\ measured = <<>>
    /\ y = 0 /\ targetY = 0 /\ drawn = <<>> /\ err = ""

GridIdle == prevDrawn = <<>>

TitleIdle == titleDraws = <<>> /\ titleErr = "" /\ titleDone = FALSE

ResolveIdle ==
    /\ customFont = "" /\ systemPaths = <<>> /\ files = {} /\ resolved = <<>>

RunIdle ==
    /\ runPc = "idle" /\ trace = <<>> /\ runErr = "" /\ faults = {} /\ debug = FALSE
    /\ saved = FALSE

ParIdle ==
    /\ parIn = <<>> /\ parPc = <<>> /\ parSize = <<>> /\ parLines = <<>>
    /\ parDraws = <<>> /\ parCaption = <<>> /\ dcFace = <<>>

RestIdle == GridIdle /\ TitleIdle /\ ResolveIdle /\ RunIdle /\ ParIdle

\* drawTitle is about to call wrapText.
InitWrap ==
    /\ title \in TitleTexts
    /\ wrapWidth \in 0..MaxWidth
    /\ greedy = <<>> /\ wrapped = <<>> /\ wrapDone = FALSE
    /\ BalanceIdle /\ UrlIdle /\ RestIdle

NextWrap == WrapTextCall

SpecWrap == InitWrap /\ [][NextWrap]_vars

\* A caller is about to hand a slice of lines to preventOrphans.
InitBalance ==
    /\ input \in WordSeqs(LineSet, MaxLines)
    /\ slice = input
    /\ calls = 0
    /\ CascadeIdle
    /\ WrapIdle /\ UrlIdle /\ RestIdle

NextBalance == PreventOrphansCall

\* Lines handed to preventOrphans in the statement-by-statement runs: the
\* shaped lines, an empty line, and a line whose pixel width and character
\* length differ.
CascadeLineSet == ShapedLines \cup {<<>>, Join(<<<<"W">>, <<"a">>>>)}

InitCascade ==
    /\ input \in WordSeqs(CascadeLineSet, MaxLines)
    /\ slice = input
    /\ calls = 0
    /\ cascPc = "start" /\ cascIdx = 0 /\ cascLog = <<>>
    /\ WrapIdle /\ UrlIdle /\ RestIdle

NextCascade ==
    \/ OrphanGuardReturn \/ OrphanFix
    \/ CascadeSkip \/ CascadeMove \/ CascadeBreak \/ CascadeExit

SpecCascade == InitCascade /\ [][NextCascade]_vars

SpecBalance == InitBalance /\ [][NextBalance]_vars

\* drawURL has been entered: urlFontSize := URLFontSize.
InitURL ==
    /\ urlEms \in UrlWidths
    /\ width \in CanvasWidths
    /\ height \in CanvasHeights
    /\ titleFontHeight \in FontHeights
    /\ urlFontOk \in BOOLEAN
    /\ titleFontOk \in BOOLEAN
    /\ pc = "fit"
    /\ urlFontSize = URLFontSize
    /\ loadedSize = 0 /\ measured = <<>>
    /\ y = 0 /\ targetY = 0 /\ drawn = <<>> /\ err = ""
    /\ WrapIdle /\ BalanceIdle /\ RestIdle

NextURL == FitMeasure \/ FitExhausted \/ FinalLoad \/ ScanStep \/ DrawCaption

SpecURL == InitURL /\ [][NextURL]_vars

\* drawURL is sequential code that runs on: a statement that can execute does.
SpecURLFair == SpecURL /\ WF_vars(NextURL)

\* drawTitle has been entered with a title, a canvas width and a title face.
InitTitle ==
    /\ title \in SpacedTitles
    /\ wrapWidth = 0 /\ greedy = <<>> /\ wrapped = <<>> /\ wrapDone = FALSE
    /\ width \in CanvasWidths
    /\ titleFontHeight \in FontHeights
    /\ titleFontOk \in BOOLEAN
    /\ urlEms = 0 /\ height = 0 /\ urlFontOk = TRUE /\ pc = "idle"
    /\ urlFontSize = 0 /\ loadedSize = 0 /\ measured = <<>>
    /\ y = 0 /\ targetY = 0 /\ drawn = <<>> /\ err = ""
    /\ BalanceIdle /\ RestIdle

NextTitle == DrawTitleCall

SpecTitle == InitTitle /\ [][NextTitle]_vars

\* Inputs of the two renders: a short and a long title, a narrow and a wide
\* canvas, a url that fits at some size and one that fits at none.
ParInputs ==
    [title : {Join(<<<<"i">>, <<"i">>, <<"W">>>>), Join([i \in 1..MaxWords |-> <<"W">>])},
     width : {WidthStep, MaxWidthK * WidthStep},
     urlEms : {UrlEmStep, MaxUrlK * UrlEmStep}]

\* Two renders of one batch (the tallest canvas, the same title face) start.
InitPar ==
    /\ parIn \in [Renders -> ParInputs]
    /\ parPc = [r \in Renders |-> "loadTitle"]
    /\ parSize = [r \in Renders |-> 0]
    /\ parLines = [r \in Renders |-> <<>>]
    /\ parDraws = [r \in Renders |-> <<>>]
    /\ parCaption = [r \in Renders |-> <<>>]
    /\ dcFace = [r \in Renders |-> <<"none", 0>>]
    /\ height = MaxHeightK * HeightStep
    /\ titleFontHeight \in FontHeights
    /\ urlEms = 0 /\ width = 0
    /\ urlFontOk = TRUE /\ titleFontOk = TRUE /\ pc = "idle"
    /\ urlFontSize = 0 /\ loadedSize = 0 /\ measured = <<>>
    /\ y = 0 /\ targetY = 0 /\ drawn = <<>> /\ err = ""
    /\ WrapIdle /\ BalanceIdle /\ GridIdle /\ TitleIdle /\ ResolveIdle /\ RunIdle

NextPar ==
    \E r \in Renders :
        \/ ParLoadTitle(r) \/ ParWrap(r) \/ ParBalance(r) \/ ParPlaceTitle(r)
        \/ ParFit(r) \/ ParFinalLoad(r) \/ ParCaption(r)

SpecPar == InitPar /\ [][NextPar]_vars

\* A font flag, a search list and a file system, before the resolver runs.
InitResolve ==
    /\ customFont \in {"", CustomFontPath, "/sys/a.ttf"}
    /\ systemPaths \in WordSeqs(SystemFontPaths, MaxSystemPaths)
    /\ files \in SUBSET AllFontPaths
    /\ resolved = <<>>
    /\ WrapIdle /\ BalanceIdle /\ UrlIdle /\ GridIdle /\ TitleIdle /\ RunIdle /\ ParIdle

NextResolve == ResolveCall

SpecResolve == InitResolve /\ [][NextResolve]_vars

\* Titles and captions of the whole-program runs: none, short, long.
RunTitles == {Join([i \in 1..k |-> <<"W">>]) : k \in {0, MaxWords}}
RunUrlWidths == {0, UrlEmStep, MaxUrlK * UrlEmStep}
RunFaults == SUBSET {"version", "resolveTitle", "resolveURL", "save"}

\* main has called runWithResolver with the command line's options.
InitRun ==
    /\ title \in RunTitles
    /\ wrapWidth = 0 /\ greedy = <<>> /\ wrapped = <<>> /\ wrapDone = FALSE
    /\ urlEms \in RunUrlWidths
    /\ width \in CanvasWidths
    /\ height \in CanvasHeights
    /\ titleFontHeight \in FontHeights
    /\ urlFontOk \in BOOLEAN
    /\ titleFontOk \in BOOLEAN
    /\ pc = "idle"
    /\ urlFontSize = 0 /\ loadedSize = 0 /\ measured = <<>>
    /\ y = 0 /\ targetY = 0 /\ drawn = <<>> /\ err = ""
    /\ runPc = "start" /\ trace = <<>> /\ runErr = ""
    /\ faults \in RunFaults
    /\ debug \in BOOLEAN
    /\ saved = FALSE
    /\ BalanceIdle /\ GridIdle /\ TitleIdle /\ ResolveIdle /\ ParIdle

NextRun ==
    \/ RunParseFlags \/ RunResolveTitle \/ RunResolveURL \/ RunDrawBackground
    \/ RunDrawTitle \/ RunDebugBaselines \/ RunDrawURL
    \/ FitMeasure \/ FitExhausted \/ FinalLoad \/ ScanStep \/ DrawCaption
    \/ RunAfterURL \/ RunSavePNG

SpecRun == InitRun /\ [][NextRun]_vars

\* Two drawURL calls in a row that differ only in the caption.
InitGrid == InitURL

NextGrid == NextURL \/ DrawURLAgain

SpecGrid == InitGrid /\ [][NextGrid]_vars

\* ------------------------------------------------------------ properties
WordCount(line) == Len(Fields(line))

RECURSIVE AllWords(_)
\* The words of the lines, read line by line and left to right.
AllWords(ls) == IF ls = <<>> THEN <<>> ELSE Fields(Head(ls)) \o AllWords(Tail(ls))

\* The candidate sizes 40, 38, ..., 16.
Candidates ==
    {s \in URLMinFontSize..URLFontSize : (URLFontSize - s) % URLFontStep = 0}

FitsAt(s) == MeasureURL(s) <= urlMaxWidth

\* C1: whenever wrapText returns two or more lines, the last line has at
\* least two words unless the second-to-last line has exactly one word.
C1_OrphanElimination ==
    (wrapDone /\ Len(wrapped) >= 2) =>
        \/ WordCount(wrapped[Len(wrapped)]) >= 2
        \/ WordCount(wrapped[Len(wrapped) - 1]) = 1

\* wrapText returned after the greedy loop had left a fixable orphan.
C1_Witness ==
    /\ wrapDone
    /\ Len(greedy) >= 2
    /\ WordCount(greedy[Len(greedy)]) = 1
    /\ WordCount(greedy[Len(greedy) - 1]) >= 2
    /\ WordCount(wrapped[Len(wrapped)]) = 2

\* C2: the words of the lines wrapText returns, in reading order, are exactly
\* strings.Fields(text): none dropped, duplicated or reordered.
C2_WordPreservation ==
    wrapDone => AllWords(wrapped) = Fields(title)

\* wrapText returned three or more lines after the orphan fix and the cascade
\* each moved a word (the first line lost its last word).
C2_Witness ==
    /\ wrapDone
    /\ Len(wrapped) >= 3
    /\ wrapped[Len(wrapped)] # greedy[Len(greedy)]
    /\ wrapped[1] # greedy[1]

\* C3: preventOrphans is idempotent: applied again to its own result, it
\* moves no word.
C3_Idempotent ==
    [][calls >= 1 => slice' = slice]_vars

\* preventOrphans ran twice on a slice whose first run moved a word.
C3_Witness ==
    /\ calls = 2
    /\ slice # input

\* C4: every line wrapText returns that has two or more words measures at
\* most maxWidth, also after the orphan fix and the cascade moved words down.
C4_WidthRespected ==
    wrapDone =>
        \A i \in 1..Len(wrapped) :
            WordCount(wrapped[i]) >= 2 => MeasureString(wrapped[i]) <= wrapWidth

\* C5: the size drawURL draws at is never below URLMinFontSize, and it is
\* exactly URLMinFontSize when the caption fits at no candidate size.
C5_MinFontSize ==
    pc = "done" =>
        /\ drawn[1] >= URLMinFontSize
        /\ (\A s \in Candidates : ~FitsAt(s)) => drawn[1] = URLMinFontSize

\* C6: when some candidate size fits, drawURL draws at the largest fitting
\* candidate, and no size is measured after the first one that fits.
C6_LargestFitting ==
    /\ \A i \in 1..Len(measured) : FitsAt(measured[i]) => i = Len(measured)
    /\ (pc = "done" /\ \E s \in Candidates : FitsAt(s)) =>
           /\ drawn[1] \in Candidates
           /\ FitsAt(drawn[1])
           /\ \A s \in Candidates : FitsAt(s) => s <= drawn[1]

\* drawURL drew a caption that fits at some size but not at URLFontSize.
C6_Witness ==
    /\ pc = "done"
    /\ ~FitsAt(URLFontSize)
    /\ \E s \in Candidates : FitsAt(s)
    /\ Len(measured) >= 2

\* C7: the caption, measured at the size drawURL draws it at, is at most
\* width - 2*TextSideMargin wide.
C7_CaptionFits ==
    pc = "done" => MeasureURL(drawn[1]) <= width - 2 * TextSideMargin

\* C8: when the first grid baseline satisfies the bound of the scan, the
\* caption is drawn at a grid baseline y(k) with y(k) <= bound < y(k+1).
C8_LowestBaseline ==
    (pc = "done" /\ gridBaseline(0) <= maxY) =>
        \E k \in 0..height :
            /\ drawn[2] = gridBaseline(k)
            /\ gridBaseline(k) <= maxY
            /\ gridBaseline(k + 1) > maxY

\* drawURL drew the caption below the first grid baseline.
C8_Witness ==
    /\ pc = "done"
    /\ gridBaseline(0) <= maxY
    /\ drawn[2] > gridBaseline(0)

\* C9: the bottom margin equals TextTopMargin: when the first grid baseline
\* fits, the caption baseline is at most canvasHeight - TextTopMargin.
C9_BottomMarginIsTopMargin ==
    (pc = "done" /\ gridBaseline(0) <= 2 * (height - TextTopMargin)) =>
        drawn[2] <= 2 * (height - TextTopMargin)

\* C10: for every canvas height the caption baseline does not exceed the
\* bottom bound, and in particular not the canvas height.
C10_CaptionInsideImage ==
    pc = "done" => (drawn[2] <= maxY /\ drawn[2] <= 2 * height)

\* C11: the caption baseline is a point y(0) + k*step of the grid built from
\* TextTopMargin and the title face's line height, and two drawURL calls
\* that differ only in url text, url face or chosen url size draw at the
\* same baseline.
C11_SharedGrid ==
    pc = "done" =>
        /\ \E k \in 0..height :
               drawn[2] = 2 * (TextTopMargin + titleFontHeight)
                              + k * titleFontHeight * LineSpacingNum
        /\ prevDrawn # <<>> => drawn[2] = prevDrawn[2]

\* Two captions were drawn at different font sizes.
C11_Witness ==
    /\ pc = "done"
    /\ prevDrawn # <<>>
    /\ drawn[1] # prevDrawn[1]

\* C12: drawTitle draws line i (0-based) of the wrapped title, in increasing
\* index order, at y(i) = TextTopMargin + fontHeight + i*fontHeight*LineSpacing,
\* with fontHeight the face's "Mg" height, whatever the title text is.
C12_TitleBaselines ==
    (titleDone /\ titleErr = "") =>
        /\ Len(titleDraws) = Len(wrapped)
        /\ \A i \in 1..Len(titleDraws) :
               /\ titleDraws[i][1] = wrapped[i]
               /\ titleDraws[i][2] =
                      2 * (TextTopMargin + titleFontHeight)
                          + (i - 1) * titleFontHeight * LineSpacingNum

\* drawTitle drew a title of three or more lines.
C12_Witness ==
    /\ titleDone
    /\ titleErr = ""
    /\ Len(titleDraws) >= 3

\* C13: with a positive line height and spacing factor the grid is strictly
\* increasing: gridBaseline(i+1) > gridBaseline(i), successive title lines
\* are drawn at strictly increasing baselines, and each step of the caption
\* scan moves to a strictly larger baseline.
C13_GridMonotone ==
    /\ [](\A i \in 0..MaxWords : gridBaseline(i + 1) > gridBaseline(i))
    /\ [](\A i \in 1..(Len(titleDraws) - 1) :
              titleDraws[i + 1][2] > titleDraws[i][2])
    /\ [][(pc = "scan" /\ pc' = "scan") => y' > y]_vars

\* A title of several lines was drawn and the caption scan has moved down.
C13_Witness ==
    /\ Len(titleDraws) >= 2
    /\ pc = "scan"
    /\ targetY > firstBaseline

\* The early returns of preventOrphans: fewer than two lines, a last line of
\* more than one word, or an orphan under a line of fewer than two words.
ReturnsUnchangedCase(ls) ==
    IF Len(ls) < 2 THEN TRUE
    ELSE \/ WordCount(ls[Len(ls)]) > 1
         \/ WordCount(ls[Len(ls)]) = 1 /\ WordCount(ls[Len(ls) - 1]) < 2

\* C14: preventOrphans returns its input unchanged, line for line and in
\* number, when there are fewer than 2 lines (nil and empty included), when
\* the last line has more than one word, and when the last line has one word
\* but the second-to-last line has fewer than 2 words.
C14_GuardsReturnInput ==
    [][ReturnsUnchangedCase(slice) => slice' = slice]_vars

\* preventOrphans returned an orphan it could not fix: the line above has a
\* single word.
C14_Witness ==
    /\ calls >= 1
    /\ Len(input) >= 2
    /\ WordCount(input[Len(input)]) = 1
    /\ WordCount(input[Len(input) - 1]) = 1
    /\ slice = input

\* The greedy loop of wrapText left an orphan that preventOrphans can fix.
FixableOrphan(ls) ==
    /\ Len(ls) >= 2
    /\ WordCount(ls[Len(ls)]) = 1
    /\ WordCount(ls[Len(ls) - 1]) >= 2

\* C15: when there are at least 2 lines, the last line has exactly one word
\* and the second-to-last line has at least 2 words, the result's last line
\* is the former last word of the second-to-last line, a space, then the
\* orphan word (two words), and the second-to-last line has lost exactly
\* that trailing word; the cascade may then put one word from the line above
\* in front of it.
C15_OrphanFixStep ==
    (wrapDone /\ FixableOrphan(greedy)) =>
        LET n == Len(greedy)
            prevWords == Fields(greedy[n - 1])
            kept == Prefix(prevWords, Len(prevWords) - 1)
            newPrev == Fields(wrapped[n - 1])
        IN  /\ Len(wrapped) = n
            /\ wrapped[n] = prevWords[Len(prevWords)] \o <<SP>> \o Fields(greedy[n])[1]
            /\ WordCount(wrapped[n]) = 2
            /\ \/ newPrev = kept
               \/ /\ n >= 3
                  /\ newPrev = <<Fields(greedy[n - 2])[WordCount(greedy[n - 2])]>> \o kept

\* The orphan was fixed and the cascade then moved a word onto the line that
\* had given one away.
C15_Witness ==
    /\ wrapDone
    /\ FixableOrphan(greedy)
    /\ WordCount(wrapped[Len(wrapped) - 1]) = WordCount(greedy[Len(greedy) - 1])

\* C16: wrapText returns zero lines exactly when the text has no words
\* (empty or whitespace only); otherwise every line, before and after the
\* orphan fix and the cascade, has at least one word, and a one-word text
\* gives exactly one line for any maxWidth, 0 included.
C16_NoEmptyLines ==
    wrapDone =>
        /\ Len(wrapped) = 0 <=> Fields(title) = <<>>
        /\ \A i \in 1..Len(greedy) : WordCount(greedy[i]) >= 1
        /\ Len(wrapped) = Len(greedy)
        /\ \A i \in 1..Len(wrapped) : WordCount(wrapped[i]) >= 1
        /\ Len(Fields(title)) = 1 => Len(wrapped) = 1

\* A text of one word, wider than maxWidth 0, came back as one line.
C16_Witness ==
    /\ wrapDone
    /\ wrapWidth = 0
    /\ Len(Fields(title)) = 1
    /\ wrapped = <<Fields(title)[1]>>

\* C17: preventOrphans and the cascade leave the slice the caller passed in
\* as it was: a caller that keeps its slice sees the same lines after the
\* call as before.
C17_CallerSliceUnmodified ==
    [][slice' = slice]_vars

\* C18: a caption that fits at no candidate size is not an error: when the
\* font files load, drawURL runs to the end, draws the caption and returns
\* nil; the only errors it returns are the two font-loading errors.
C18_OverflowIsNotAnError ==
    /\ (urlFontOk /\ titleFontOk) => (pc # "error" /\ err = "")
    /\ pc = "error" => err \in {"load font for url", "load title font for baseline"}
    /\ pc = "done" => (err = "" /\ drawn # <<>>)
    /\ pc \notin {"done", "error"} => ENABLED NextURL

\* drawURL drew a caption that fits at none of the candidate sizes.
C18_Witness ==
    /\ pc = "done"
    /\ \A s \in Candidates : ~FitsAt(s)
    /\ drawn # <<>>
    /\ err = ""

\* C19: resolveFontPathWithPaths returns the custom path whenever it is
\* non-empty, whether or not it exists; otherwise fonts/OpenSans-Bold.ttf if
\* that file exists; otherwise the first path of systemPaths, in list order,
\* that exists; and the "font file not found" error exactly when none exists.
C19_FontPrecedence ==
    resolved # <<>> =>
        LET path == resolved[1]
            e == resolved[2]
            hits == {i \in 1..Len(systemPaths) : systemPaths[i] \in files}
        IN  /\ customFont # "" => (path = customFont /\ e = NoError)
            /\ (customFont = "" /\ LocalFontPath \in files) =>
                   (path = LocalFontPath /\ e = NoError)
            /\ (customFont = "" /\ LocalFontPath \notin files /\ hits # {}) =>
                   /\ e = NoError
                   /\ \E i \in hits : /\ path = systemPaths[i]
                                       /\ \A j \in hits : i <= j
            /\ e # NoError <=>
                   (customFont = "" /\ LocalFontPath \notin files /\ hits = {})
            /\ e # NoError => (path = "" /\ e[1] = "font file not found at ")

\* The resolver skipped a missing system path and returned the next one.
C19_Witness ==
    /\ resolved # <<>>
    /\ customFont = ""
    /\ LocalFontPath \notin files
    /\ Len(systemPaths) >= 2
    /\ systemPaths[1] \notin files
    /\ resolved[1] = systemPaths[2]
    /\ resolved[2] = NoError

\* The steps of runWithResolver in program order.
RunOrder ==
    <<"parseFlags", "resolveTitle", "resolveURL", "drawBackground",
      "drawTitle", "debugBaselines", "drawURL", "savePNG">>

\* The steps a run with these options goes through when nothing fails.
ExpectedSteps == SelectSeq(RunOrder, LAMBDA s : debug \/ s # "debugBaselines")

\* Whether the step returns an error for the inputs of this run.
StepFails(s) ==
    CASE s = "parseFlags" -> "version" \in faults \/ title = <<>> \/ urlEms = 0
      [] s = "resolveTitle" -> "resolveTitle" \in faults
      [] s = "resolveURL" -> "resolveURL" \in faults
      [] s = "drawTitle" -> ~titleFontOk
      [] s = "debugBaselines" -> ~titleFontOk
      [] s = "drawURL" -> ~urlFontOk \/ ~titleFontOk
      [] s = "savePNG" -> "save" \in faults
      [] OTHER -> FALSE

\* C20: runWithResolver runs parse flags, resolve title font, resolve URL
\* font, draw background, draw title, (debug baselines), draw URL, save PNG
\* in this order; the first step that fails makes it return an error and no
\* later step runs, so the URL font is never resolved after a title-font
\* failure and the PNG is written only if every earlier step succeeded.
C20_PipelineOrderAndAbort ==
    /\ Len(trace) <= Len(ExpectedSteps)
    /\ \A i \in 1..Len(trace) : trace[i] = ExpectedSteps[i]
    /\ \A i \in 1..(Len(trace) - 1) : ~StepFails(trace[i])
    /\ runPc = "returned" =>
           /\ runErr # "" <=> StepFails(trace[Len(trace)])
           /\ runErr = "" <=> saved
    /\ saved =>
           /\ trace = ExpectedSteps
           /\ \A i \in 1..Len(trace) : ~StepFails(trace[i])
    /\ "resolveTitle" \in faults =>
           \A i \in 1..Len(trace) : trace[i] # "resolveURL"

\* The title font could not be resolved, the URL font could not have been
\* either, and the run returned right after the first resolver call.
C20_Witness ==
    /\ runPc = "returned"
    /\ {"resolveTitle", "resolveURL"} \subseteq faults
    /\ trace = <<"parseFlags", "resolveTitle">>
    /\ runErr # ""
    /\ ~saved

\* C22: in the lines the loop of wrapText has built before preventOrphans
\* runs, every line of two or more words measures at most maxWidth, and
\* every line but the last is maximal: with a space and the first word of
\* the next line added it measures more than maxWidth.
C22_GreedyRule ==
    wrapDone =>
        /\ \A i \in 1..Len(greedy) :
               WordCount(greedy[i]) >= 2 => MeasureString(greedy[i]) <= wrapWidth
        /\ \A i \in 1..(Len(greedy) - 1) :
               MeasureString(greedy[i] \o <<SP>> \o Fields(greedy[i + 1])[1]) > wrapWidth

\* The loop built several lines, one of them filled exactly to maxWidth.
C22_Witness ==
    /\ wrapDone
    /\ Len(greedy) >= 3
    /\ \E i \in 1..(Len(greedy) - 1) :
           /\ WordCount(greedy[i]) >= 2
           /\ MeasureString(greedy[i]) = wrapWidth

\* C23: in the greedy stage a word wider than maxWidth is never split: it
\* is a line of its own, whole, and the words before and after it are on
\* other lines.
C23_WideWordAlone ==
    wrapDone =>
        /\ AllWords(greedy) = Fields(title)
        /\ \A i \in 1..Len(greedy) :
               \A k \in 1..WordCount(greedy[i]) :
                   MeasureString(Fields(greedy[i])[k]) > wrapWidth =>
                       greedy[i] = Fields(greedy[i])[k]

\* A word wider than maxWidth stands between two other lines.
C23_Witness ==
    /\ wrapDone
    /\ \E i \in 2..(Len(greedy) - 1) :
           /\ WordCount(greedy[i]) = 1
           /\ MeasureString(greedy[i]) > wrapWidth
           /\ MeasureString(greedy[i - 1]) <= wrapWidth

\* The character offset at which the second-to-last word of a line begins:
\* 0 when it is the first word, otherwise the length of the words before it
\* joined by single spaces, plus 1.
OffsetOfSecondToLast(ws) ==
    IF Len(ws) = 2 THEN 0 ELSE Len(Join(Prefix(ws, Len(ws) - 2))) + 1

\* The cascade is at level cascIdx and the line above has words many enough.
AtLevelWithTwoAbove ==
    /\ cascPc = "loop"
    /\ cascIdx >= 1
    /\ WordCount(At(slice, cascIdx - 1)) >= 2

\* The slice after the last word of line idx-1 went to the front of line idx.
WithWordMovedDown(ls, idx) ==
    LET aboveWords == Fields(At(ls, idx - 1))
    IN  Put(Put(ls, idx - 1, Join(Prefix(aboveWords, Len(aboveWords) - 1))),
            idx, aboveWords[Len(aboveWords)] \o <<SP>> \o At(ls, idx))

\* C24: the cascade visits the levels from the shortened line's index down
\* to 1; at a level whose line above has at least 2 words, the last word of
\* the line above moves to the front of lines[idx] if and only if the
\* character offset of the second-to-last word of the line above is at
\* least the character length of lines[idx] as it then stands.
C24_MoveCondition ==
    /\ [](\A k \in 1..Len(cascLog) : cascLog[k][1] = Len(input) - 1 - k)
    /\ [][AtLevelWithTwoAbove =>
              IF OffsetOfSecondToLast(Fields(At(slice, cascIdx - 1)))
                     >= Len(At(slice, cascIdx))
              THEN slice' = WithWordMovedDown(slice, cascIdx)
              ELSE slice' = slice]_vars

\* The cascade moved a word at one level and stopped at the next.
C24_Witness ==
    /\ cascPc = "returned"
    /\ \E k \in 1..(Len(cascLog) - 1) :
           /\ cascLog[k][2] = "move"
           /\ cascLog[k + 1][2] = "stop"

\* C25: at the first level where the line above has at least 2 words and
\* the move condition is false the cascade ends: nothing changes at that
\* level or after it, and every line with index <= idx-1 is returned as it
\* was in the input.
C25_CascadeStop ==
    /\ [][(AtLevelWithTwoAbove
             /\ OffsetOfSecondToLast(Fields(At(slice, cascIdx - 1)))
                    < Len(At(slice, cascIdx)))
               => (cascPc' = "returned" /\ slice' = slice)]_vars
    /\ [][cascPc = "returned" => slice' = slice]_vars
    /\ [](\A k \in 1..Len(cascLog) :
              cascLog[k][2] = "stop" =>
                  /\ k = Len(cascLog)
                  /\ \A j \in 0..(cascLog[k][1] - 1) : At(slice, j) = At(input, j))

\* The cascade stopped at the second line of a block of three or more
\* lines, or higher, with lines above it.
C25_Witness ==
    /\ cascPc = "returned"
    /\ Len(input) >= 3
    /\ cascLog # <<>>
    /\ cascLog[Len(cascLog)][2] = "stop"

\* C26: when the line above at level idx has fewer than 2 words the cascade
\* changes nothing at that level and goes on to level idx-1 instead of
\* stopping.
C26_CascadeSkip ==
    [][(cascPc = "loop" /\ cascIdx >= 1 /\ WordCount(At(slice, cascIdx - 1)) < 2)
           => (slice' = slice /\ cascIdx' = cascIdx - 1 /\ cascPc' = "loop")]_vars

\* A level was skipped and the next level up still moved a word.
C26_Witness ==
    \E k \in 1..(Len(cascLog) - 1) :
        /\ cascLog[k][2] = "skip"
        /\ cascLog[k + 1][2] = "move"

\* after is before with, at each boundary marked in m, the last word of the
\* upper line moved to the front of the line below it.
MovedDownOnce(before, after, m) ==
    /\ \A b \in DOMAIN m : m[b] = 1 => WordCount(before[b]) >= 1
    /\ \A i \in 1..Len(before) :
           LET ws == Fields(before[i])
               arriving == IF i > 1 /\ m[i - 1] = 1
                           THEN <<Fields(before[i - 1])[WordCount(before[i - 1])]>>
                           ELSE <<>>
               leaving == IF i < Len(before) /\ m[i] = 1 THEN 1 ELSE 0
           IN  Fields(after[i]) = arriving \o Prefix(ws, Len(ws) - leaving)

\* C28: preventOrphans returns as many lines as it was given; every word
\* stays on its line or ends on the line immediately below the one it
\* started on; at most one word crosses each boundary between two lines.
C28_OneWordDownPerBoundary ==
    [][/\ Len(slice') = Len(slice)
       /\ \E m \in [1..(Len(slice) - 1) -> {0, 1}] : MovedDownOnce(slice, slice', m)]_vars

\* preventOrphans moved a word across each of two boundaries.
C28_Witness ==
    /\ calls = 1
    /\ Len(input) >= 3
    /\ slice[Len(slice)] # input[Len(input)]
    /\ slice[Len(slice) - 2] # input[Len(input) - 2]

\* No line handed to preventOrphans is the empty string.
NoEmptyLine(ls) == \A i \in 1..Len(ls) : ls[i] # <<>>

\* C29: for input without empty lines the cascade takes a word only from a
\* line of at least 3 words and never changes the last line, so every line
\* other than the second-to-last that had at least 2 words on input still
\* has at least 2 words when preventOrphans returns.
C29_NoNewOneWordLine ==
    /\ [][(NoEmptyLine(input) /\ cascPc = "loop" /\ slice' # slice)
              => WordCount(At(slice, cascIdx - 1)) >= 3]_vars
    /\ [][cascPc = "loop" => slice'[Len(slice)] = slice[Len(slice)]]_vars
    /\ []((NoEmptyLine(input) /\ cascPc = "returned") =>
              \A i \in 1..Len(input) :
                  (i # Len(input) - 1 /\ WordCount(input[i]) >= 2)
                      => WordCount(slice[i]) >= 2)

\* The cascade moved a word on input without empty lines.
C29_Witness ==
    /\ cascPc = "returned"
    /\ NoEmptyLine(input)
    /\ \E k \in 1..Len(cascLog) : cascLog[k][2] = "move"

\* C27: for every canvas height and every line height of the title face the
\* scan loop of drawURL ends and the caption is drawn at the baseline it
\* chose.
C27_ScanTerminates ==
    (pc = "scan") ~> (pc = "done" /\ drawn # <<>> /\ drawn[2] = targetY)

\* The scan ended on a canvas too short for the first baseline, without an
\* iteration.
C27_Witness ==
    /\ pc = "done"
    /\ firstBaseline > maxY
    /\ drawn[2] = firstBaseline

\* C30: the baseline at which drawURL draws the caption is strictly below
\* the baseline of the last title line drawTitle drew, for every title and
\* canvas height.
C30_CaptionBelowTitle ==
    (pc = "done" /\ titleDraws # <<>>) =>
        drawn[2] > titleDraws[Len(titleDraws)][2]

\* What render r produces when it runs alone.
AloneLines(r) ==
    wrapText(parIn[r].title, (parIn[r].width - 2 * TextSideMargin) \div GlyphPx)

\* C21: two renders, each with its own context, whose wrap, balance,
\* grid-placement and font-fit steps interleave in any order, each produce
\* the lines, baselines and caption font size they produce when run alone.
C21_RendersIndependent ==
    \A r \in Renders :
        /\ parPc[r] \in {"fit", "final", "caption", "done"} =>
               /\ parLines[r] = AloneLines(r)
               /\ parDraws[r] = titleLoop(AloneLines(r))
        /\ parPc[r] = "done" =>
               parCaption[r] =
                   <<fitSize(parIn[r].urlEms, parIn[r].width - 2 * TextSideMargin,
                             URLFontSize),
                     lastBaseline(firstBaseline, firstBaseline)>>

\* Both renders finished, with different lines and different caption sizes.
C21_Witness ==
    /\ \A r \in Renders : parPc[r] = "done"
    /\ parLines[1] # parLines[2]
    /\ parCaption[1][1] # parCaption[2][1]

====
